---- MODULE Spec2Model ----
(***************************************************************************)
(* A model of the Life Progress Bar Generator: life_progress.py (the       *)
(* validating variant with animation and file export) and                  *)
(* life_progress_bar.py (the simpler variant).                             *)
(*                                                                         *)
(* Python values are modelled as follows.                                  *)
(*   - a str is a sequence of one-character strings;                       *)
(*   - a float or int is a record [k, n, d]: k = "fin" is the rational     *)
(*     n/d (d > 0), k = "nan", "inf", "ninf" are the IEEE specials.  The   *)
(*     arithmetic the programs do on them (one division, one product by    *)
(*     100, comparisons, round, int) is computed exactly on the rationals. *)
(*   - a raised exception is a record [raised |-> <exception name>].       *)
(***************************************************************************)
EXTENDS Integers, Sequences, FiniteSets, TLC

VARIABLES
    \* validate_age called on its own
    age_str, is_lifespan, vresult, vpc,
    \* the two percentage functions called on their own
    c_age, c_lifespan, progress, percentage, cpc,
    \* the bar renderers and the export bar called on their own
    b_pct, b_len, made_bar, gen_bar, disp_bar, file_bar, bpc,
    \* the animation loop run on its own
    a_pct, frames, anim_i, apc,
    \* a run of main (either program)
    prog, pc, age, lifespan, m_pct, life_stage, shown_bar, years_shown,
    years_left, days_left, displayed, saved_bar, file_years, save_result,
    write_failed, warned, eof, notice, closing, exit_status, error, last_msg,
    custom

varsV == <<age_str, is_lifespan, vresult, vpc>>
varsC == <<c_age, c_lifespan, progress, percentage, cpc>>
varsB == <<b_pct, b_len, made_bar, gen_bar, disp_bar, file_bar, bpc>>
varsA == <<a_pct, frames, anim_i, apc>>
varsM == <<prog, pc, age, lifespan, m_pct, life_stage, shown_bar, years_shown,
           years_left, days_left, displayed, saved_bar, file_years,
           save_result, write_failed, warned, eof, notice, closing,
           exit_status, error, last_msg, custom>>
vars == <<varsV, varsC, varsB, varsA, varsM>>

(***************************************************************************)
(* Numbers                                                                 *)
(***************************************************************************)
Num(n, d) == [k |-> "fin", n |-> n, d |-> d]
Int2Num(i) == Num(i, 1)
NaN == [k |-> "nan", n |-> 0, d |-> 1]
PosInf == [k |-> "inf", n |-> 0, d |-> 1]
NegInf == [k |-> "ninf", n |-> 0, d |-> 1]
None == [k |-> "none", n |-> 0, d |-> 1]

IsFin(a) == a.k = "fin"
Hundred == Int2Num(100)
Zero == Int2Num(0)

\* a < b on Python floats: every comparison with nan is False
Lt(a, b) ==
    IF a.k = "nan" \/ b.k = "nan" THEN FALSE
    ELSE IF a.k = "fin" /\ b.k = "fin" THEN a.n * b.d < b.n * a.d
    ELSE IF a.k = "ninf" THEN b.k # "ninf"
    ELSE IF a.k = "inf" THEN FALSE
    ELSE b.k = "inf"

\* a == b on Python floats
NumEq(a, b) ==
    IF a.k = "nan" \/ b.k = "nan" THEN FALSE
    ELSE IF a.k = "fin" /\ b.k = "fin" THEN a.n * b.d = b.n * a.d
    ELSE a.k = b.k

Le(a, b) == Lt(a, b) \/ NumEq(a, b)

\* Python's min(a, b): b if b < a else a
PyMin(a, b) == IF Lt(b, a) THEN b ELSE a

\* a / b for a finite a and a b that is not zero
Div(a, b) ==
    IF b.k = "nan" THEN NaN
    ELSE IF b.k \in {"inf", "ninf"} THEN Num(0, 1)
    ELSE IF b.n > 0 THEN Num(a.n * b.d, a.d * b.n)
    ELSE Num(-(a.n * b.d), a.d * (-b.n))

\* a * i for an integer i > 0
MulInt(a, i) == IF IsFin(a) THEN Num(a.n * i, a.d) ELSE a

\* a / i for an integer i > 0
DivInt(a, i) == IF IsFin(a) THEN Num(a.n, a.d * i) ELSE a

\* a - b
Sub(a, b) ==
    IF a.k = "nan" \/ b.k = "nan" THEN NaN
    ELSE IF a.k = "fin" /\ b.k = "fin" THEN Num(a.n * b.d - b.n * a.d, a.d * b.d)
    ELSE IF a.k = b.k THEN NaN
    ELSE IF a.k = "fin" THEN (IF b.k = "inf" THEN NegInf ELSE PosInf)
    ELSE a

\* a + b on finite values
Add(a, b) == Num(a.n * b.d + b.n * a.d, a.d * b.d)

\* floor of a finite value
Floor(a) == a.n \div a.d

\* int(x): truncation toward zero; raises on nan (ValueError) and on the
\* infinities (OverflowError)
IntRaises(a) ==
    IF a.k = "nan" THEN "ValueError"
    ELSE IF a.k \in {"inf", "ninf"} THEN "OverflowError"
    ELSE "none"

Trunc(a) == IF a.n >= 0 THEN a.n \div a.d ELSE -((-a.n) \div a.d)

\* round(x) of Python 3 on a finite value: to the nearest integer, a tie to
\* the even one
PyRound(a) ==
    LET f == Floor(a)
        twice == 2 * (a.n - f * a.d)  \* twice the fractional part, times d
    IN  IF twice < a.d THEN f
        ELSE IF twice > a.d THEN f + 1
        ELSE IF f % 2 = 0 THEN f ELSE f + 1

(***************************************************************************)
(* Strings and the conversions float(str), int(str)                        *)
(***************************************************************************)
Digits == {"0", "1", "2", "3", "4", "5", "6", "7", "8", "9"}

DigitVal(c) ==
    CASE c = "0" -> 0 [] c = "1" -> 1 [] c = "2" -> 2 [] c = "3" -> 3
      [] c = "4" -> 4 [] c = "5" -> 5 [] c = "6" -> 6 [] c = "7" -> 7
      [] c = "8" -> 8 [] c = "9" -> 9

RECURSIVE DigitsVal(_)
DigitsVal(s) ==
    IF s = <<>> THEN 0
    ELSE DigitsVal(SubSeq(s, 1, Len(s) - 1)) * 10 + DigitVal(s[Len(s)])

RECURSIVE Pow10(_)
Pow10(k) == IF k = 0 THEN 1 ELSE 10 * Pow10(k - 1)

\* str.strip() for the blank
RECURSIVE Strip(_)
Strip(s) ==
    IF s = <<>> THEN s
    ELSE IF s[1] = " " THEN Strip(Tail(s))
    ELSE IF s[Len(s)] = " " THEN Strip(SubSeq(s, 1, Len(s) - 1))
    ELSE s

\* str.lower() on the letters the prompts compare against
Lower(s) == [i \in 1..Len(s) |-> IF s[i] = "Y" THEN "y" ELSE IF s[i] = "N" THEN "n" ELSE s[i]]

ParseError == [k |-> "err", n |-> 0, d |-> 1]

\* float(text): blanks stripped, an optional sign, then nan, inf, infinity or
\* a decimal literal with at least one digit and at most one point.  (The
\* exponent and underscore forms use characters no modelled input contains.)
ParseFloat(text) ==
    LET s == Strip(text)
        signed == Len(s) > 0 /\ s[1] \in {"+", "-"}
        neg == signed /\ s[1] = "-"
        body == IF signed THEN Tail(s) ELSE s
        dots == {i \in 1..Len(body) : body[i] = "."}
        literal == /\ \A i \in 1..Len(body) : body[i] \in Digits \cup {"."}
                   /\ Cardinality(dots) <= 1
                   /\ Len(body) - Cardinality(dots) >= 1
        dot == IF dots = {} THEN Len(body) + 1 ELSE CHOOSE i \in dots : TRUE
        ip == SubSeq(body, 1, dot - 1)
        fp == SubSeq(body, dot + 1, Len(body))
        mag == DigitsVal(ip \o fp)
    IN  IF body = <<"n", "a", "n">> THEN NaN
        ELSE IF body \in {<<"i", "n", "f">>, <<"i", "n", "f", "i", "n", "i", "t", "y">>}
             THEN (IF neg THEN NegInf ELSE PosInf)
        ELSE IF literal THEN Num(IF neg THEN -mag ELSE mag, Pow10(Len(fp)))
        ELSE ParseError

\* int(text): blanks stripped, an optional sign, then digits only
ParseInt(text) ==
    LET s == Strip(text)
        signed == Len(s) > 0 /\ s[1] \in {"+", "-"}
        neg == signed /\ s[1] = "-"
        body == IF signed THEN Tail(s) ELSE s
    IN  IF Len(body) >= 1 /\ \A i \in 1..Len(body) : body[i] \in Digits
        THEN Num(IF neg THEN -DigitsVal(body) ELSE DigitsVal(body), 1)
        ELSE ParseError

(***************************************************************************)
(* life_progress.py: validate_age                                          *)
(***************************************************************************)
MAX_AGE == 150
MIN_LIFESPAN == 10

MSG_EMPTY == "Input cannot be empty."
MSG_NOT_NUMBER == "Please enter a valid number."
MSG_NOT_WHOLE == "Age should be a whole number (e.g., 25)."
MSG_NOT_POSITIVE == "Please enter a positive number."
MSG_MIN_LIFESPAN == "Lifespan should be at least 10 years."
MSG_MAX_AGE == "Please enter a realistic age (max 150)."

Ret(valid, message, value) ==
    [raised |-> "none", valid |-> valid, message |-> message, value |-> value]
Raise(exc) ==
    [raised |-> exc, valid |-> FALSE, message |-> "", value |-> None]

\* line 23: not is_lifespan and age != int(age)
NotWhole(isLifespan, a) == ~isLifespan /\ ~NumEq(a, Int2Num(Trunc(a)))

validate_age(text, isLifespan) ==
    IF text = <<>> THEN Ret(FALSE, MSG_EMPTY, Int2Num(0))
    ELSE LET a == ParseFloat(text) IN
    IF a = ParseError THEN Ret(FALSE, MSG_NOT_NUMBER, Int2Num(0))
    \* int(age) is evaluated only in age mode, outside the try block
    ELSE IF ~isLifespan /\ IntRaises(a) # "none" THEN Raise(IntRaises(a))
    ELSE IF NotWhole(isLifespan, a) THEN Ret(FALSE, MSG_NOT_WHOLE, Int2Num(0))
    ELSE LET age_int == IF ~isLifespan THEN Int2Num(Trunc(a)) ELSE a IN
    IF Le(age_int, Int2Num(0)) THEN Ret(FALSE, MSG_NOT_POSITIVE, Int2Num(0))
    ELSE IF isLifespan /\ Lt(age_int, Int2Num(MIN_LIFESPAN))
         THEN Ret(FALSE, MSG_MIN_LIFESPAN, Int2Num(0))
    ELSE IF ~isLifespan /\ Lt(Int2Num(MAX_AGE), age_int)
         THEN Ret(FALSE, MSG_MAX_AGE, Int2Num(0))
    ELSE Ret(TRUE, "", age_int)

(***************************************************************************)
(* Percentage of life lived                                                *)
(***************************************************************************)
\* calculate_percentage without the cap at 100
calculate_percentage_uncapped(a, l) == MulInt(Div(a, l), 100)

\* life_progress.py: min((age / lifespan) * 100, 100)
calculate_percentage(a, l) == PyMin(MulInt(Div(a, l), 100), Int2Num(100))

\* life_progress_bar.py: the pair (percentage_lived, percentage_remaining)
calculate_progress(a, l) ==
    LET age_clamped == PyMin(a, l)
        percentage_lived == MulInt(Div(age_clamped, l), 100)
        percentage_remaining == Sub(Int2Num(100), percentage_lived)
    IN  <<percentage_lived, percentage_remaining>>

(***************************************************************************)
(* Bars                                                                    *)
(***************************************************************************)
DEFAULT_BAR_LENGTH == 40
BAR_LENGTH == 50
DEFAULT_LIFESPAN == 80

ESC == "ESC"
GREEN == <<ESC, "[", "9", "2", "m">>
YELLOW == <<ESC, "[", "9", "3", "m">>
ORANGE == <<ESC, "[", "3", "3", "m">>
RED == <<ESC, "[", "9", "1", "m">>
GRAY == <<ESC, "[", "9", "0", "m">>
RESET == <<ESC, "[", "0", "m">>

\* life_progress.py draws with U+2588 and U+2500
BLOCK == "U+2588"
DASH == "U+2500"
\* life_progress_bar.py's glyphs are three characters each in the source
CHAR_FILLED == <<"U+00E2", "U+2013", "U+02C6">>
CHAR_EMPTY == <<"U+00E2", "U+2013", "U+2018">>

\* s * n: the empty string for n <= 0
Rep(s, n) ==
    IF n <= 0 THEN <<>>
    ELSE [i \in 1..(n * Len(s)) |-> s[((i - 1) % Len(s)) + 1]]

\* filled_length taking the percentage for a fraction: no division by 100
filled_length_as_fraction(pct, bar_length) == PyRound(MulInt(pct, bar_length))

\* int(round(bar_length * percentage / 100))
filled_length(pct, bar_length) == PyRound(DivInt(MulInt(pct, bar_length), 100))

\* the colour tier of create_progress_bar
bar_color(pct) ==
    IF Lt(pct, Int2Num(30)) THEN GREEN
    ELSE IF Lt(pct, Int2Num(60)) THEN YELLOW
    ELSE IF Lt(pct, Int2Num(80)) THEN ORANGE
    ELSE RED

create_progress_bar(pct, bar_length) ==
    LET filled == filled_length(pct, bar_length)
        empty_length == bar_length - filled
        bar == Rep(<<BLOCK>>, filled) \o Rep(<<DASH>>, empty_length)
    IN  <<"[">> \o bar_color(pct) \o bar \o RESET \o <<"]">>

\* int(round((percentage / 100) * BAR_LENGTH))
filled_chars(pct) == PyRound(MulInt(DivInt(pct, 100), BAR_LENGTH))

generate_progress_bar(pct) ==
    LET filled == filled_chars(pct)
        empty_chars == BAR_LENGTH - filled
    IN  GREEN \o Rep(CHAR_FILLED, filled) \o RESET
        \o GRAY \o Rep(CHAR_EMPTY, empty_chars) \o RESET

\* s.replace(old, ""): occurrences removed left to right, without overlap
RECURSIVE Remove(_, _)
Remove(s, old) ==
    IF Len(s) < Len(old) THEN s
    ELSE IF SubSeq(s, 1, Len(old)) = old
         THEN Remove(SubSeq(s, Len(old) + 1, Len(s)), old)
    ELSE <<s[1]>> \o Remove(Tail(s), old)

\* strip_colors with the replace of the orange code left out
strip_colors_without_orange(s) ==
    Remove(Remove(Remove(Remove(s, GREEN), YELLOW), RED), RESET)

\* the colour codes save_to_file removes, in its order
strip_colors(s) ==
    Remove(Remove(Remove(Remove(Remove(s, GREEN), YELLOW), ORANGE), RED), RESET)

\* display_results: create_progress_bar(percentage)
display_bar(pct) == create_progress_bar(pct, DEFAULT_BAR_LENGTH)

\* save_to_file: create_progress_bar(percentage) with the colour codes removed
export_bar(pct) == strip_colors(create_progress_bar(pct, DEFAULT_BAR_LENGTH))

\* how many times the glyph g occurs in s
CountGlyph(s, g) ==
    Cardinality({i \in 1..(Len(s) - Len(g) + 1) : SubSeq(s, i, i + Len(g) - 1) = g})

\* the filled and empty glyphs of a life_progress.py bar, in order
IsGlyph(c) == c \in {BLOCK, DASH}
Glyphs(s) == SelectSeq(s, IsGlyph)

(***************************************************************************)
(* life_progress.py: life stage, animation                                 *)
(***************************************************************************)
get_life_stage(a) ==
    IF a < 13 THEN "Childhood"
    ELSE IF a < 20 THEN "Teen Years"
    ELSE IF a < 30 THEN "Twenties"
    ELSE IF a < 40 THEN "Thirties"
    ELSE IF a < 50 THEN "Forties"
    ELSE IF a < 65 THEN "Fifties"
    ELSE "Golden Years"

ANIMATE_STEP == 2

\* range(0, int(percentage) + 1, 2) stops before this value
animate_stop(pct) == Trunc(pct) + 1

\* current_percentage = min(i, percentage)
current_percentage(i, pct) == PyMin(Int2Num(i), pct)

(***************************************************************************)
(* Bounds of the model                                                     *)
(***************************************************************************)
\* longest text handed to validate_age on its own
MaxLen == 3
\* largest age and lifespan handed to the percentage functions on their own
MaxYears == 100
\* percentages handed to the renderers are the n/d in [0, 100], d <= MaxDen
MaxDen == 4
\* bar lengths 1..MaxBarLen, besides the two the programs use
MaxBarLen == 12

Alphabet == {"0", "1", "5", ".", "-", "n", "a", "i", "f"}
Texts == UNION {[1..k -> Alphabet] : k \in 0..MaxLen}
Pcts == UNION {{Num(n, d) : n \in 0..(100 * d)} : d \in 1..MaxDen}
YearsInt == {Int2Num(n) : n \in 1..MaxYears}
YearsHalf == {Num(n, 2) : n \in 1..(2 * MaxYears)}
BarLengths == (1..MaxBarLen) \cup {DEFAULT_BAR_LENGTH, BAR_LENGTH}

NoResult == [raised |-> "none", valid |-> FALSE, message |-> "not called", value |-> None]
NoBar == <<"not rendered">>

IdleV == age_str = <<>> /\ is_lifespan = FALSE /\ vresult = NoResult /\ vpc = "idle"
IdleC == /\ c_age = None /\ c_lifespan = None /\ progress = <<None, None>>
         /\ percentage = None /\ cpc = "idle"
IdleB == /\ b_pct = None /\ b_len = 0 /\ made_bar = NoBar /\ gen_bar = NoBar
         /\ disp_bar = NoBar /\ file_bar = NoBar /\ bpc = "idle"
IdleA == a_pct = None /\ frames = <<>> /\ anim_i = 0 /\ apc = "idle"
IdleM == /\ prog = "none" /\ pc = "idle" /\ age = 0 /\ lifespan = None
         /\ m_pct = None /\ life_stage = "" /\ shown_bar = NoBar
         /\ years_shown = FALSE /\ years_left = None /\ days_left = None
         /\ displayed = FALSE /\ saved_bar = NoBar /\ file_years = FALSE
         /\ save_result = "not called" /\ write_failed = FALSE
         /\ warned = FALSE /\ eof = FALSE /\ notice = FALSE /\ closing = FALSE
         /\ exit_status = -1 /\ error = "none" /\ last_msg = "" /\ custom = FALSE

(***************************************************************************)
(* validate_age on its own                                                 *)
(***************************************************************************)
InitValidate ==
    /\ age_str \in Texts /\ is_lifespan \in BOOLEAN
    /\ vresult = NoResult /\ vpc = "call"
    /\ IdleC /\ IdleB /\ IdleA /\ IdleM

ValidateCall ==
    /\ vpc = "call"
    /\ vresult' = validate_age(age_str, is_lifespan)
    /\ vpc' = "returned"
    /\ UNCHANGED <<age_str, is_lifespan, varsC, varsB, varsA, varsM>>

NextValidate == ValidateCall
SpecValidate == InitValidate /\ [][NextValidate]_vars

(***************************************************************************)
(* The percentage functions on their own                                   *)
(***************************************************************************)
InitPercent ==
    /\ c_age \in YearsInt /\ c_lifespan \in YearsInt \cup YearsHalf
    /\ progress = <<None, None>> /\ percentage = None /\ cpc = "start"
    /\ IdleV /\ IdleB /\ IdleA /\ IdleM

CalculateProgress ==
    /\ cpc = "start"
    /\ progress' = calculate_progress(c_age, c_lifespan)
    /\ cpc' = "progress"
    /\ UNCHANGED <<c_age, c_lifespan, percentage, varsV, varsB, varsA, varsM>>

CalculatePercentage ==
    /\ cpc = "progress"
    /\ percentage' = calculate_percentage(c_age, c_lifespan)
    /\ cpc' = "done"
    /\ UNCHANGED <<c_age, c_lifespan, progress, varsV, varsB, varsA, varsM>>

NextPercent == CalculateProgress \/ CalculatePercentage
SpecPercent == InitPercent /\ [][NextPercent]_vars

(***************************************************************************)
(* The renderers on their own                                              *)
(***************************************************************************)
InitBar ==
    /\ b_pct \in Pcts /\ b_len \in BarLengths
    /\ made_bar = NoBar /\ gen_bar = NoBar /\ disp_bar = NoBar
    /\ file_bar = NoBar /\ bpc = "start"
    /\ IdleV /\ IdleC /\ IdleA /\ IdleM

CreateBar ==
    /\ bpc = "start"
    /\ made_bar' = create_progress_bar(b_pct, b_len)
    /\ bpc' = "created"
    /\ UNCHANGED <<b_pct, b_len, gen_bar, disp_bar, file_bar,
                   varsV, varsC, varsA, varsM>>

GenerateBar ==
    /\ bpc = "created"
    /\ gen_bar' = generate_progress_bar(b_pct)
    /\ bpc' = "generated"
    /\ UNCHANGED <<b_pct, b_len, made_bar, disp_bar, file_bar,
                   varsV, varsC, varsA, varsM>>

DisplayBar ==
    /\ bpc = "generated"
    /\ disp_bar' = display_bar(b_pct)
    /\ bpc' = "displayed"
    /\ UNCHANGED <<b_pct, b_len, made_bar, gen_bar, file_bar,
                   varsV, varsC, varsA, varsM>>

ExportBar ==
    /\ bpc = "displayed"
    /\ file_bar' = export_bar(b_pct)
    /\ bpc' = "exported"
    /\ UNCHANGED <<b_pct, b_len, made_bar, gen_bar, disp_bar,
                   varsV, varsC, varsA, varsM>>

NextBar == CreateBar \/ GenerateBar \/ DisplayBar \/ ExportBar
SpecBar == InitBar /\ [][NextBar]_vars

(***************************************************************************)
(* animate_progress on its own: one action per frame of the for loop       *)
(***************************************************************************)
InitAnimate ==
    /\ a_pct \in Pcts /\ frames = <<>> /\ anim_i = 0 /\ apc = "loop"
    /\ IdleV /\ IdleC /\ IdleB /\ IdleM

AnimateFrame ==
    /\ apc = "loop"
    /\ anim_i < animate_stop(a_pct)
    /\ frames' = Append(frames, current_percentage(anim_i, a_pct))
    /\ anim_i' = anim_i + ANIMATE_STEP
    /\ UNCHANGED <<a_pct, apc, varsV, varsC, varsB, varsM>>

AnimateEnd ==
    /\ apc = "loop"
    /\ anim_i >= animate_stop(a_pct)
    /\ apc' = "done"
    /\ UNCHANGED <<a_pct, frames, anim_i, varsV, varsC, varsB, varsM>>

NextAnimate == AnimateFrame \/ AnimateEnd
SpecAnimate == InitAnimate /\ [][NextAnimate]_vars

(***************************************************************************)
(* A run of main.  Each action is one blocking input() with everything the *)
(* program does up to the next one, or the report between the last answer  *)
(* and the next prompt.  A line read is a text; EOF is the end of input.    *)
(***************************************************************************)
LP == "life_progress.py"
LB == "life_progress_bar.py"

EOF == <<"EOF">>
MainTexts ==
    { <<>>, <<" ">>, <<"a", "b", "c">>, <<"y">>, <<"Y">>, <<"n">>,
      <<"0">>, <<"-", "3">>, <<"1">>, <<"5">>, <<"1", "0">>, <<"1", "2">>,
      <<"2", "5">>, <<"2", ".", "5">>, <<"8", "0">>, <<"8", "0", ".", "5">>,
      <<"9", "0">>, <<"1", "5", "0">>, <<"1", "5", "1">>, <<"2", "0", "0">>,
      <<"n", "a", "n">>, <<"i", "n", "f">> }
Inputs == MainTexts \cup {EOF}

MSG_LIFESPAN_NOT_GREATER == "Lifespan should be greater than your current age. Try again."
LB_MSG_NOT_POSITIVE == "Error: Please enter a positive number greater than zero."
LB_MSG_NOT_WHOLE == "Error: Invalid input. Please enter a whole number."

\* life_progress_bar.py: get_life_stage
bar_get_life_stage(a) ==
    IF a < 13 THEN "Childhood"
    ELSE IF a < 20 THEN "Teenage Years"
    ELSE IF a < 40 THEN "Young Adulthood"
    ELSE IF a < 65 THEN "Middle Age"
    ELSE IF a < 80 THEN "Elder Adulthood"
    ELSE "Golden Years"

\* display_results and save_to_file with the <= of a wrong comparison
shows_years_at_100(pct) == Le(pct, Hundred)

\* display_results and save_to_file: if percentage < 100
shows_years(pct) == Lt(pct, Hundred)

\* save_to_file without its except clause: the write error propagates
save_to_file_uncaught(pct, writeOK) ==
    IF writeOK
    THEN [raised |-> "none", returned |-> "True", bar |-> export_bar(pct),
          years |-> shows_years(pct), warned |-> FALSE]
    ELSE [raised |-> "OSError", returned |-> "raised", bar |-> NoBar,
          years |-> FALSE, warned |-> FALSE]

\* save_to_file: the report is written and True returned, or the write
\* fails, the exception is caught, a warning printed and False returned
save_to_file(pct, writeOK) ==
    IF writeOK
    THEN [raised |-> "none", returned |-> "True", bar |-> export_bar(pct),
          years |-> shows_years(pct), warned |-> FALSE]
    ELSE [raised |-> "none", returned |-> "False", bar |-> NoBar,
          years |-> FALSE, warned |-> TRUE]

\* get_valid_input on one line that is not the end of input: the value
\* returned, or the error message printed before the prompt is repeated
get_valid_input(line, default_value) ==
    LET user_input == Strip(line)
        value == ParseInt(user_input)
    IN  IF user_input = <<>> /\ default_value # None
        THEN [ok |-> TRUE, value |-> default_value, message |-> ""]
        ELSE IF value = ParseError
        THEN [ok |-> FALSE, value |-> None, message |-> LB_MSG_NOT_WHOLE]
        ELSE IF Le(value, Zero)
        THEN [ok |-> FALSE, value |-> None, message |-> LB_MSG_NOT_POSITIVE]
        ELSE [ok |-> TRUE, value |-> value, message |-> ""]

InitMain ==
    /\ prog \in {LP, LB} /\ pc = "age_prompt" /\ age = 0 /\ lifespan = None
    /\ m_pct = None /\ life_stage = "" /\ shown_bar = NoBar
    /\ years_shown = FALSE /\ years_left = None /\ days_left = None
    /\ displayed = FALSE /\ saved_bar = NoBar /\ file_years = FALSE
    /\ save_result = "not called" /\ write_failed = FALSE
    /\ warned = FALSE /\ eof = FALSE /\ notice = FALSE /\ closing = FALSE
    /\ exit_status = -1 /\ error = "none" /\ last_msg = "" /\ custom = FALSE
    /\ IdleV /\ IdleC /\ IdleB /\ IdleA

\* life_progress.py lines 206-213: the age prompt
LP_EnterAge(line) ==
    /\ prog = LP /\ pc = "age_prompt"
    /\ IF line = EOF
       THEN
            /\ pc' = "crashed"
            /\ error' = "EOFError"
            /\ exit_status' = 1
            /\ eof' = TRUE
            /\ UNCHANGED <<prog, age, lifespan, m_pct, life_stage, shown_bar,
                           years_shown, years_left, days_left, displayed,
                           saved_bar, file_years, save_result, write_failed,
                           warned, notice, closing, last_msg, custom>>
       ELSE LET r == validate_age(line, FALSE) IN
            IF r.raised # "none"
            THEN
                 /\ pc' = "crashed"
                 /\ error' = r.raised
                 /\ exit_status' = 1
                 /\ UNCHANGED <<prog, age, lifespan, m_pct, life_stage,
                                shown_bar, years_shown, years_left,
                                days_left, displayed, saved_bar, file_years,
                                save_result, write_failed, warned, eof,
                                notice, closing, last_msg, custom>>
            ELSE IF r.valid
            THEN
                 /\ age' = r.value.n
                 /\ pc' = "choice_prompt"
                 /\ UNCHANGED <<prog, lifespan, m_pct, life_stage, shown_bar,
                                years_shown, years_left, days_left,
                                displayed, saved_bar, file_years,
                                save_result, write_failed, warned, eof,
                                notice, closing, exit_status, error,
                                last_msg, custom>>
            ELSE
                 /\ last_msg' = r.message
                 /\ UNCHANGED <<prog, pc, age, lifespan, m_pct, life_stage,
                                shown_bar, years_shown, years_left,
                                days_left, displayed, saved_bar, file_years,
                                save_result, write_failed, warned, eof,
                                notice, closing, exit_status, error, custom>>
    /\ UNCHANGED <<varsV, varsC, varsB, varsA>>

\* life_progress.py lines 216-220 and 232-234: the custom lifespan question
LP_EnterChoice(line) ==
    /\ prog = LP /\ pc = "choice_prompt"
    /\ IF line = EOF
       THEN
            /\ pc' = "crashed"
            /\ error' = "EOFError"
            /\ exit_status' = 1
            /\ eof' = TRUE
            /\ UNCHANGED <<prog, age, lifespan, m_pct, life_stage, shown_bar,
                           years_shown, years_left, days_left, displayed,
                           saved_bar, file_years, save_result, write_failed,
                           warned, notice, closing, last_msg, custom>>
       ELSE IF Lower(line) = <<"y">>
       THEN
            /\ custom' = TRUE
            /\ pc' = "lifespan_prompt"
            /\ UNCHANGED <<prog, age, lifespan, m_pct, life_stage, shown_bar,
                           years_shown, years_left, days_left, displayed,
                           saved_bar, file_years, save_result, write_failed,
                           warned, eof, notice, closing, exit_status, error,
                           last_msg>>
       ELSE
            /\ custom' = FALSE
            /\ lifespan' = Int2Num(DEFAULT_LIFESPAN)
            /\ pc' = "calc"
            /\ UNCHANGED <<prog, age, m_pct, life_stage, shown_bar,
                           years_shown, years_left, days_left, displayed,
                           saved_bar, file_years, save_result, write_failed,
                           warned, eof, notice, closing, exit_status, error,
                           last_msg>>
    /\ UNCHANGED <<varsV, varsC, varsB, varsA>>

\* life_progress.py lines 221-231: the lifespan prompt
LP_EnterLifespan(line) ==
    /\ prog = LP /\ pc = "lifespan_prompt"
    /\ IF line = EOF
       THEN
            /\ pc' = "crashed"
            /\ error' = "EOFError"
            /\ exit_status' = 1
            /\ eof' = TRUE
            /\ UNCHANGED <<prog, age, lifespan, m_pct, life_stage, shown_bar,
                           years_shown, years_left, days_left, displayed,
                           saved_bar, file_years, save_result, write_failed,
                           warned, notice, closing, last_msg, custom>>
       ELSE LET r == validate_age(line, TRUE) IN
            IF r.raised # "none"
            THEN
                 /\ pc' = "crashed"
                 /\ error' = r.raised
                 /\ exit_status' = 1
                 /\ UNCHANGED <<prog, age, lifespan, m_pct, life_stage,
                                shown_bar, years_shown, years_left,
                                days_left, displayed, saved_bar, file_years,
                                save_result, write_failed, warned, eof,
                                notice, closing, last_msg, custom>>
            ELSE IF r.valid /\ Le(r.value, Int2Num(age))
            THEN
                 /\ last_msg' = MSG_LIFESPAN_NOT_GREATER
                 /\ UNCHANGED <<prog, pc, age, lifespan, m_pct, life_stage,
                                shown_bar, years_shown, years_left,
                                days_left, displayed, saved_bar, file_years,
                                save_result, write_failed, warned, eof,
                                notice, closing, exit_status, error, custom>>
            ELSE IF r.valid
            THEN
                 /\ lifespan' = r.value
                 /\ pc' = "calc"
                 /\ UNCHANGED <<prog, age, m_pct, life_stage, shown_bar,
                                years_shown, years_left, days_left,
                                displayed, saved_bar, file_years,
                                save_result, write_failed, warned, eof,
                                notice, closing, exit_status, error,
                                last_msg, custom>>
            ELSE
                 /\ last_msg' = r.message
                 /\ UNCHANGED <<prog, pc, age, lifespan, m_pct, life_stage,
                                shown_bar, years_shown, years_left,
                                days_left, displayed, saved_bar, file_years,
                                save_result, write_failed, warned, eof,
                                notice, closing, exit_status, error, custom>>
    /\ UNCHANGED <<varsV, varsC, varsB, varsA>>

\* life_progress.py lines 237-247: percentage, life stage, animation, report
LP_Report ==
    /\ prog = LP /\ pc = "calc"
    /\ LET pct == calculate_percentage(Int2Num(age), lifespan)
           left == Sub(lifespan, Int2Num(age))
       IN  \* animate_progress evaluates int(percentage) first
           IF IntRaises(pct) # "none"
           THEN
                /\ pc' = "crashed"
                /\ error' = IntRaises(pct)
                /\ exit_status' = 1
                /\ m_pct' = pct
                /\ life_stage' = get_life_stage(age)
                /\ UNCHANGED <<prog, age, lifespan, shown_bar, years_shown,
                               years_left, days_left, displayed, saved_bar,
                               file_years, save_result, write_failed, warned,
                               eof, notice, closing, last_msg, custom>>
           ELSE IF shows_years(pct)
           THEN
                /\ m_pct' = pct
                /\ life_stage' = get_life_stage(age)
                /\ shown_bar' = display_bar(pct)
                /\ displayed' = TRUE
                /\ years_shown' = TRUE
                /\ years_left' = left
                /\ days_left' = MulInt(left, 365)
                /\ pc' = "save_prompt"
                /\ UNCHANGED <<prog, age, lifespan, saved_bar, file_years,
                               save_result, write_failed, warned, eof,
                               notice, closing, exit_status, error, last_msg,
                               custom>>
           ELSE
                /\ m_pct' = pct
                /\ life_stage' = get_life_stage(age)
                /\ shown_bar' = display_bar(pct)
                /\ displayed' = TRUE
                /\ pc' = "save_prompt"
                /\ UNCHANGED <<prog, age, lifespan, years_shown, years_left,
                               days_left, saved_bar, file_years, save_result,
                               write_failed, warned, eof, notice, closing,
                               exit_status, error, last_msg, custom>>
    /\ UNCHANGED <<varsV, varsC, varsB, varsA>>

\* life_progress.py lines 250-259: the save question, save_to_file (whose
\* write succeeds or fails), the closing message
LP_EnterSave(line, writeOK) ==
    /\ prog = LP /\ pc = "save_prompt"
    /\ IF line = EOF
       THEN
            /\ pc' = "crashed"
            /\ error' = "EOFError"
            /\ exit_status' = 1
            /\ eof' = TRUE
            /\ UNCHANGED <<prog, age, lifespan, m_pct, life_stage, shown_bar,
                           years_shown, years_left, days_left, displayed,
                           saved_bar, file_years, save_result, write_failed,
                           warned, notice, closing, last_msg, custom>>
       ELSE IF Lower(line) = <<"y">>
       THEN LET r == save_to_file(m_pct, writeOK) IN
            IF r.raised # "none"
            THEN
                 /\ pc' = "crashed"
                 /\ error' = r.raised
                 /\ exit_status' = 1
                 /\ write_failed' = ~writeOK
                 /\ save_result' = r.returned
                 /\ UNCHANGED <<prog, age, lifespan, m_pct, life_stage,
                                shown_bar, years_shown, years_left,
                                days_left, displayed, saved_bar, file_years,
                                warned, eof, notice, closing, last_msg,
                                custom>>
            ELSE
                 /\ write_failed' = ~writeOK
                 /\ save_result' = r.returned
                 /\ saved_bar' = r.bar
                 /\ file_years' = r.years
                 /\ warned' = r.warned
                 /\ closing' = TRUE
                 /\ exit_status' = 0
                 /\ pc' = "done"
                 /\ UNCHANGED <<prog, age, lifespan, m_pct, life_stage,
                                shown_bar, years_shown, years_left,
                                days_left, displayed, eof, notice, error,
                                last_msg, custom>>
       ELSE
            /\ closing' = TRUE
            /\ exit_status' = 0
            /\ pc' = "done"
            /\ UNCHANGED <<prog, age, lifespan, m_pct, life_stage, shown_bar,
                           years_shown, years_left, days_left, displayed,
                           saved_bar, file_years, save_result, write_failed,
                           warned, eof, notice, error, last_msg, custom>>
    /\ UNCHANGED <<varsV, varsC, varsB, varsA>>

\* life_progress_bar.py line 162: get_valid_input for the age
LB_EnterAge(line) ==
    /\ prog = LB /\ pc = "age_prompt"
    /\ IF line = EOF
       THEN
            /\ eof' = TRUE
            /\ notice' = TRUE
            /\ exit_status' = 0
            /\ pc' = "exited"
            /\ UNCHANGED <<prog, age, lifespan, m_pct, life_stage, shown_bar,
                           years_shown, years_left, days_left, displayed,
                           saved_bar, file_years, save_result, write_failed,
                           warned, closing, error, last_msg, custom>>
       ELSE LET r == get_valid_input(line, None) IN
            IF r.ok
            THEN
                 /\ age' = r.value.n
                 /\ pc' = "lifespan_prompt"
                 /\ UNCHANGED <<prog, lifespan, m_pct, life_stage, shown_bar,
                                years_shown, years_left, days_left,
                                displayed, saved_bar, file_years,
                                save_result, write_failed, warned, eof,
                                notice, closing, exit_status, error,
                                last_msg, custom>>
            ELSE
                 /\ last_msg' = r.message
                 /\ UNCHANGED <<prog, pc, age, lifespan, m_pct, life_stage,
                                shown_bar, years_shown, years_left,
                                days_left, displayed, saved_bar, file_years,
                                save_result, write_failed, warned, eof,
                                notice, closing, exit_status, error, custom>>
    /\ UNCHANGED <<varsV, varsC, varsB, varsA>>

\* life_progress_bar.py line 165: get_valid_input for the lifespan
LB_EnterLifespan(line) ==
    /\ prog = LB /\ pc = "lifespan_prompt"
    /\ IF line = EOF
       THEN
            /\ eof' = TRUE
            /\ notice' = TRUE
            /\ exit_status' = 0
            /\ pc' = "exited"
            /\ UNCHANGED <<prog, age, lifespan, m_pct, life_stage, shown_bar,
                           years_shown, years_left, days_left, displayed,
                           saved_bar, file_years, save_result, write_failed,
                           warned, closing, error, last_msg, custom>>
       ELSE LET r == get_valid_input(line, Int2Num(DEFAULT_LIFESPAN)) IN
            IF r.ok
            THEN
                 /\ lifespan' = r.value
                 /\ pc' = "calc"
                 /\ UNCHANGED <<prog, age, m_pct, life_stage, shown_bar,
                                years_shown, years_left, days_left,
                                displayed, saved_bar, file_years,
                                save_result, write_failed, warned, eof,
                                notice, closing, exit_status, error,
                                last_msg, custom>>
            ELSE
                 /\ last_msg' = r.message
                 /\ UNCHANGED <<prog, pc, age, lifespan, m_pct, life_stage,
                                shown_bar, years_shown, years_left,
                                days_left, displayed, saved_bar, file_years,
                                save_result, write_failed, warned, eof,
                                notice, closing, exit_status, error, custom>>
    /\ UNCHANGED <<varsV, varsC, varsB, varsA>>

\* life_progress_bar.py lines 168-179: progress, bar, report
LB_Report ==
    /\ prog = LB /\ pc = "calc"
    /\ LET pr == calculate_progress(Int2Num(age), lifespan) IN
        /\ m_pct' = pr[1]
        /\ life_stage' = bar_get_life_stage(age)
        /\ shown_bar' = generate_progress_bar(pr[1])
        /\ displayed' = TRUE
        /\ exit_status' = 0
        /\ pc' = "done"
        /\ UNCHANGED <<prog, age, lifespan, years_shown, years_left,
                       days_left, saved_bar, file_years, save_result,
                       write_failed, warned, eof, notice, closing, error,
                       last_msg, custom>>
    /\ UNCHANGED <<varsV, varsC, varsB, varsA>>

NextMain ==
    \/ \E line \in Inputs : LP_EnterAge(line)
    \/ \E line \in Inputs : LP_EnterChoice(line)
    \/ \E line \in Inputs : LP_EnterLifespan(line)
    \/ LP_Report
    \/ \E line \in Inputs, writeOK \in BOOLEAN : LP_EnterSave(line, writeOK)
    \/ \E line \in Inputs : LB_EnterAge(line)
    \/ \E line \in Inputs : LB_EnterLifespan(line)
    \/ LB_Report
SpecMain == InitMain /\ [][NextMain]_vars

(***************************************************************************)
(* Claims about the functions on their own                                 *)
(***************************************************************************)
\* C1: for every age > 0 and lifespan > 0, calculate_progress returns
\* PercentageLived = min(age/lifespan x 100, 100) and PercentageRemaining =
\* 100 - PercentageLived, calculate_percentage returns the same
\* PercentageLived, the value is in [0, 100], lived + remaining = 100, and
\* age >= lifespan gives exactly 100 lived and 0 remaining.
C1_PercentageLived ==
    cpc = "done" =>
        LET lived == progress[1]
            remaining == progress[2]
            expected == IF Lt(c_age, c_lifespan)
                        THEN Num(100 * c_age.n * c_lifespan.d, c_age.d * c_lifespan.n)
                        ELSE Hundred
        IN  /\ IsFin(lived) /\ IsFin(remaining) /\ IsFin(percentage)
            /\ NumEq(lived, expected)
            /\ NumEq(percentage, lived)
            /\ Le(Zero, lived) /\ Le(lived, Hundred)
            /\ NumEq(Add(lived, remaining), Hundred)
            /\ (Le(c_lifespan, c_age) =>
                    /\ NumEq(lived, Hundred) /\ NumEq(remaining, Zero)
                    /\ NumEq(percentage, Hundred))

\* age = 90, lifespan = 80: both functions have returned 100
C1_Witness ==
    /\ cpc = "done" /\ c_age = Int2Num(90) /\ c_lifespan = Int2Num(80)
    /\ NumEq(progress[1], Hundred) /\ NumEq(percentage, Hundred)

\* the glyph characters of a generate_progress_bar string, in order
IsGenGlyphChar(c) == c \in {CHAR_FILLED[i] : i \in 1..3} \cup {CHAR_EMPTY[i] : i \in 1..3}
GenGlyphs(s) == SelectSeq(s, IsGenGlyphChar)

\* C2: for every percentage in [0, 100] and every positive bar length L,
\* create_progress_bar and generate_progress_bar (L = 50) produce filledCount
\* filled glyphs followed by emptyCount empty glyphs, 0 <= filledCount <= L,
\* filledCount + emptyCount = L, filledCount = L at 100 and 0 at 0.
C2_BarCounts ==
    bpc \in {"generated", "displayed", "exported"} =>
        LET f == CountGlyph(made_bar, <<BLOCK>>)
            e == CountGlyph(made_bar, <<DASH>>)
            gf == CountGlyph(gen_bar, CHAR_FILLED)
            ge == CountGlyph(gen_bar, CHAR_EMPTY)
        IN  /\ f \in 0..b_len /\ f + e = b_len
            /\ Glyphs(made_bar) = Rep(<<BLOCK>>, f) \o Rep(<<DASH>>, e)
            /\ (NumEq(b_pct, Hundred) => f = b_len)
            /\ (NumEq(b_pct, Zero) => f = 0)
            /\ gf \in 0..BAR_LENGTH /\ gf + ge = BAR_LENGTH
            /\ GenGlyphs(gen_bar) = Rep(CHAR_FILLED, gf) \o Rep(CHAR_EMPTY, ge)
            /\ (NumEq(b_pct, Hundred) => gf = BAR_LENGTH)
            /\ (NumEq(b_pct, Zero) => gf = 0)

\* a full bar of length 40 and a full bar of length 50 have been rendered
C2_Witness ==
    /\ bpc = "generated" /\ NumEq(b_pct, Hundred) /\ b_len = DEFAULT_BAR_LENGTH
    /\ CountGlyph(made_bar, <<BLOCK>>) = DEFAULT_BAR_LENGTH
    /\ CountGlyph(gen_bar, CHAR_FILLED) = BAR_LENGTH

\* C3: validate_age returns (valid, message, value); in age mode it is valid
\* exactly when the text is a whole number in (0, 150], the value being that
\* integer; in lifespan mode exactly when the text is a number >= 10; every
\* invalid result carries value 0 and a non-empty message; the six kinds of
\* rejection have pairwise distinct messages.
C3_ValidateContract ==
    vpc = "returned" =>
        LET a == ParseFloat(age_str)
            number == age_str # <<>> /\ a # ParseError /\ a.k # "nan"
            whole == IsFin(a) /\ a.n % a.d = 0
            okAge == number /\ whole /\ Lt(Zero, a) /\ Le(a, Int2Num(MAX_AGE))
            okLifespan == number /\ Le(Int2Num(MIN_LIFESPAN), a)
            r == vresult
        IN  /\ r.raised = "none"
            /\ (~is_lifespan => (r.valid <=> okAge))
            /\ (~is_lifespan /\ r.valid => r.value = Int2Num(a.n \div a.d))
            /\ (is_lifespan => (r.valid <=> okLifespan))
            /\ (~r.valid => r.value = Zero /\ r.message # "")
            /\ (age_str = <<>> => r.message = MSG_EMPTY)
            /\ (age_str # <<>> /\ a = ParseError => r.message = MSG_NOT_NUMBER)
            /\ (number /\ ~is_lifespan /\ ~whole => r.message = MSG_NOT_WHOLE)
            /\ (number /\ (is_lifespan \/ whole) /\ Le(a, Zero)
                    => r.message = MSG_NOT_POSITIVE)
            /\ (number /\ ~is_lifespan /\ whole /\ Lt(Int2Num(MAX_AGE), a)
                    => r.message = MSG_MAX_AGE)
            /\ (number /\ is_lifespan /\ Lt(Zero, a) /\ Lt(a, Int2Num(MIN_LIFESPAN))
                    => r.message = MSG_MIN_LIFESPAN)
            /\ Cardinality({MSG_EMPTY, MSG_NOT_NUMBER, MSG_NOT_WHOLE,
                            MSG_NOT_POSITIVE, MSG_MAX_AGE, MSG_MIN_LIFESPAN}) = 6

\* C7: for every percentage in [0, 100] the bar save_to_file writes holds no
\* colour-control sequence and is, glyph for glyph, the bar display_results
\* prints: same filled count, same empty count, same order, length 40.
C7_ExportBarSameGlyphs ==
    bpc = "exported" =>
        /\ \A i \in 1..Len(file_bar) : file_bar[i] # ESC
        /\ file_bar = <<"[">> \o Glyphs(disp_bar) \o <<"]">>
        /\ Glyphs(file_bar) = Glyphs(disp_bar)
        /\ Len(Glyphs(file_bar)) = DEFAULT_BAR_LENGTH
        /\ CountGlyph(file_bar, <<BLOCK>>) = CountGlyph(disp_bar, <<BLOCK>>)
        /\ CountGlyph(file_bar, <<DASH>>) = CountGlyph(disp_bar, <<DASH>>)

\* 70 percent (the orange tier): 28 filled and 12 empty glyphs in the file
C7_Witness ==
    /\ bpc = "exported" /\ b_pct = Int2Num(70)
    /\ SubSeq(disp_bar, 2, 6) = ORANGE
    /\ file_bar = <<"[">> \o Rep(<<BLOCK>>, 28) \o Rep(<<DASH>>, 12) \o <<"]">>

\* C10: for every PercentageLived p in [0, 100], animate_progress ends after
\* finitely many frames; the frame percentages start at 0, rise in steps of
\* 2, never exceed p, and the last frame shows exactly p.
C10_AnimationEndsAtP ==
    apc = "done" =>
        /\ Len(frames) >= 1
        /\ frames[1] = Zero
        /\ \A i \in 1..(Len(frames) - 1) :
               NumEq(Sub(frames[i + 1], frames[i]), Int2Num(ANIMATE_STEP))
        /\ \A i \in 1..Len(frames) : Le(frames[i], a_pct)
        /\ NumEq(frames[Len(frames)], a_pct)

(***************************************************************************)
(* Claims about a run of main                                              *)
(***************************************************************************)
\* C4: in main of life_progress.py an entry at the age prompt is accepted or
\* only repeats the prompt; an accepted age never changes; a rejected
\* lifespan entry only repeats the lifespan prompt; the calculation step is
\* reached only with an integer age in 1..150 and, for a custom lifespan,
\* lifespan >= 10 and lifespan > age.
C4_MainInputLoops ==
    [][prog = LP =>
        /\ (pc = "age_prompt" /\ ~eof' => pc' \in {"age_prompt", "choice_prompt"})
        /\ (pc = "age_prompt" /\ pc' = "age_prompt" =>
                age' = age /\ lifespan' = lifespan)
        /\ (pc # "age_prompt" => age' = age)
        /\ (pc = "lifespan_prompt" /\ ~eof' => pc' \in {"lifespan_prompt", "calc"})
        /\ (pc = "lifespan_prompt" /\ pc' = "lifespan_prompt" =>
                lifespan' = lifespan)
        /\ (pc' = "calc" =>
                /\ age' \in 1..MAX_AGE
                /\ (custom' => /\ Le(Int2Num(MIN_LIFESPAN), lifespan')
                               /\ Lt(Int2Num(age'), lifespan')))
    ]_vars

\* C5: for age = 25 with the default lifespan 80, life_progress.py computes
\* PercentageLived = 31.25, the "Twenties" life stage, and a bar of length 40
\* with exactly 13 filled glyphs and 27 empty ones.
C5_Example25Of80 ==
    (prog = LP /\ displayed /\ age = 25 /\ ~custom) =>
        /\ lifespan = Int2Num(DEFAULT_LIFESPAN)
        /\ NumEq(m_pct, Num(3125, 100))
        /\ life_stage = "Twenties"
        /\ CountGlyph(shown_bar, <<BLOCK>>) = 13
        /\ CountGlyph(shown_bar, <<DASH>>) = 27

\* C6: at every prompt of either program, end of input makes the program
\* print a short notice and exit with status 0; no run ends in an unhandled
\* error.
C6_EndOfInputExitsCleanly ==
    /\ (eof => pc = "exited" /\ notice /\ exit_status = 0 /\ error = "none")
    /\ pc # "crashed"
    /\ error = "none"

\* C8: when the user asks to save and writing the report fails, save_to_file
\* reports a warning and returns False without raising, and main of
\* life_progress.py still prints its closing message and finishes normally,
\* as it does after a successful save or when saving is declined.
C8_SaveFailureIsWarning ==
    prog = LP =>
        /\ (write_failed =>
                /\ save_result = "False" /\ warned /\ error = "none"
                /\ pc = "done" /\ closing /\ exit_status = 0)
        /\ (save_result # "not called" => pc = "done")
        /\ (pc = "done" => closing /\ exit_status = 0 /\ error = "none")

\* the write failed, and the run has finished with its closing message
C8_Witness ==
    /\ prog = LP /\ write_failed /\ save_result = "False" /\ warned
    /\ pc = "done" /\ closing /\ exit_status = 0

\* C9: in every run of life_progress.py that reaches display_results or
\* save_to_file, the years-remaining section (YearsRemaining = lifespan - age,
\* DaysRemaining = YearsRemaining x 365) is produced exactly when
\* PercentageLived < 100, which is exactly when age < lifespan; it is absent
\* for age = 80, lifespan = 80, and a YearsRemaining shown is positive.
C9_YearsRemainingSection ==
    (prog = LP /\ displayed) =>
        /\ (years_shown <=> Lt(m_pct, Hundred))
        /\ (years_shown <=> Lt(Int2Num(age), lifespan))
        /\ (years_shown =>
                /\ NumEq(years_left, Sub(lifespan, Int2Num(age)))
                /\ Lt(Zero, years_left)
                /\ NumEq(days_left, MulInt(years_left, 365)))
        /\ (save_result = "True" =>
                /\ (file_years <=> Lt(m_pct, Hundred))
                /\ (file_years <=> Lt(Int2Num(age), lifespan)))
        /\ (age = 80 /\ lifespan = Int2Num(80) => ~years_shown)

\* age 80 on the default lifespan 80: shown and saved without the section
C9_Witness ==
    /\ prog = LP /\ displayed /\ age = 80 /\ lifespan = Int2Num(80)
    /\ ~years_shown /\ save_result = "True" /\ ~file_years

====
